---- MODULE Spec2Model ----
(***************************************************************************)
(* Tic-tac-toe online rooms of Playloop-Studios: the room repository       *)
(* (services/firebase.ts), the subscription callback and the match         *)
(* controller (App.tsx), over a Firebase Realtime Database modelled as one *)
(* document tree with per-subscriber snapshot queues.                      *)
(*                                                                         *)
(* Store semantics assumed (firebase/database, not part of the sources):   *)
(*  - a write commits at the server when it is issued;                     *)
(*  - the writer's own listener fires synchronously with the writer's      *)
(*    cached document plus the write (latency compensation), and the       *)
(*    snapshots still queued for the writer are overlaid with the write;   *)
(*  - every other subscriber of the room gets the new document appended to *)
(*    its queue and processes its queue in order, at any later time;       *)
(*  - get() reads the server's document;                                   *)
(*  - documents are kept as written: that the database stores no null      *)
(*    leaves (an empty board, a null winner) is not modelled, the readers  *)
(*    in the code treat null and absent alike.                             *)
(*                                                                         *)
(* The handlers are those of games/tic-tac-toe/App.tsx. Its online menu    *)
(* opens a "coming soon" dialog in place of the CREATE_ROOM and JOIN_ROOM  *)
(* views; the two buttons are modelled as in src/App.tsx, which opens the  *)
(* views. The handleMove of src/App.tsx is modelled for the offline modes, *)
(* the only ones that build reaches.                                       *)
(***************************************************************************)
EXTENDS Integers, Sequences, FiniteSets, TLC

\* ------------------------------------------------------------------ bounds
MaxInbox == 1      \* snapshots queued per subscriber
MaxCell == 4       \* Spec: matches are played on the cells 0 .. MaxCell
MaxTimers == 1     \* pending lobby-transition timers per client
MaxSessions == 2   \* Spec: times a client leaves LANDING for a room or a game, all clients
MaxLobbySessions == 3  \* SpecLobby, SpecRace: the same
MaxOpeningCell == 1    \* SpecLobby, SpecRace: moves are made on the cells 0 .. MaxOpeningCell
MaxLocalGames == 1     \* SpecLocal: times the client leaves LANDING for a game
MaxMatchSessions == 3  \* SpecMatch: times a client leaves LANDING for a room
MaxScenarioSessions == 2  \* SpecScenario: one create and one join
MaxHeard == 2          \* snapshots and transitions counted per listener, up to MaxHeard
MaxClock == 1          \* SpecRepository: Date.now() runs from 0 to MaxClock
MaxRepositorySessions == 2  \* SpecRepository: times a client leaves LANDING
RandomGrain == 4            \* SpecCodes: values Math.random() takes in [0, 1)
MaxRejoinSessions == 3      \* SpecRejoin: times a client leaves LANDING for a room
MaxScore == 2               \* results a client counts before its last match; a counter stops at MaxScore

\* --------------------------------------------------------------- constants
Null == "null"
Clients == {"c1", "c2", "c3"}
Players == {"c1", "c2"}    \* the clients acting in Spec, SpecLobby and SpecLocal
NoCode == ""

\* ------------------------------------------------------- generateRoomCode
\* the characters a room code is drawn from
chars_AllLettersAndDigits == "ABCDEFGHIJKLMNOPQRSTUVWXYZ0123456789"

chars == "ABCDEFGHJKLMNPQRSTUVWXYZ23456789"

\* String.prototype.charAt: the character at a zero-based index, "" outside
charAt(s, i) == IF i >= 0 /\ i < Len(s) THEN SubSeq(s, i + 1, i + 1) ELSE ""

\* Math.random() returns k / RandomGrain for a k of MathRandom, a value of [0, 1)
MathRandom == 0 .. RandomGrain - 1

\* Math.floor(Math.random() * n) for the value k / RandomGrain
floorOfRandomTimes(k, n) == (k * n) \div RandomGrain

\* the draws of one call: the value Math.random() returns in iteration i
Draws == [0 .. 3 -> MathRandom]

\* the loop of four iterations, code += chars.charAt(...), from code = ""
generateRoomCode(random) ==
  LET code[i \in 0 .. 4] ==
        IF i = 0 THEN ""
        ELSE code[i - 1] \o charAt(chars, floorOfRandomTimes(random[i - 1], Len(chars)))
  IN  code[4]

\* every code generateRoomCode returns under these draws
GeneratedCodes == {generateRoomCode(random) : random \in Draws}

\* the one code of the rooms of Spec, SpecLobby, SpecRace, SpecRepository,
\* SpecMatch and SpecScenario: the code of the draws 0, 1/RandomGrain, ...
Codes == {generateRoomCode([i \in 0 .. 3 |-> i])}
NoRoom == [status |-> "NONE"]
Cells == 0 .. 8
Symbols == {"X", "O"}
PlayCells == {i \in Cells : i <= MaxCell}
OpeningCells == {i \in Cells : i <= MaxOpeningCell}

\* the table with a wrong cell in its last diagonal
WINNING_COMBINATIONS_BadDiagonal ==
  << <<0, 1, 2>>, <<3, 4, 5>>, <<6, 7, 8>>,
     <<0, 3, 6>>, <<1, 4, 7>>, <<2, 5, 8>>,
     <<0, 4, 8>>, <<2, 4, 7>> >>

WINNING_COMBINATIONS ==
  << <<0, 1, 2>>, <<3, 4, 5>>, <<6, 7, 8>>,
     <<0, 3, 6>>, <<1, 4, 7>>, <<2, 5, 8>>,
     <<0, 4, 8>>, <<2, 4, 6>> >>

EMPTY_BOARD == [i \in Cells |-> Null]

VARIABLES
  rooms,      \* rooms/{code}: the room documents at the server
  onDisc,     \* per client: the deferred writes armed with onDisconnect
  app,        \* per client: the React state and refs of App
  sub,        \* per client: the room its onValue listener is attached to
  known,      \* per client: the listener's cached document
  inbox,      \* per client: snapshots delivered by the server, not yet processed
  pc,         \* per client: where its pending async handler is suspended
  pend,       \* per client: the locals of the suspended handler
  timers,     \* per client: pending setTimeout callbacks of the lobby transition
  waitingJoins, \* per room: the clients whose joinRoom read status WAITING and returned true
  placed,     \* per room and per offline client: the symbol placed by the latest
              \* accepted move of the match under way
  sessions,   \* times a client may still leave LANDING for a room or a game
  last,       \* the most recent handler call and what it returned
  db,         \* per client: whether getDatabase(app) gave the module its handle
  now,        \* Date.now()
  lastMoveTimestamp, \* per room: rooms/{code}/lastMoveTimestamp, which no client reads
  detach,     \* per client: the function subscribeToRoom returned to a caller
              \* other than the App, "none" before the call
  heard       \* per client, since its listener was attached: the view it was
              \* attached in, the snapshots with player2.joined passed to the
              \* callback and the lobby transitions the callback scheduled

vars == <<rooms, onDisc, app, sub, known, inbox, pc, pend, timers, waitingJoins,
          placed, sessions, last, db, now, lastMoveTimestamp, detach, heard>>

\* ------------------------------------------------------- pure game helpers
ComboWins(b, k) ==
  LET combo == WINNING_COMBINATIONS[k]
  IN  /\ b[combo[1]] # Null
      /\ b[combo[1]] = b[combo[2]]
      /\ b[combo[1]] = b[combo[3]]

FirstWinningComboFrom(b, k) ==
  IF \E j \in 1 .. Len(WINNING_COMBINATIONS) : j >= k /\ ComboWins(b, j)
  THEN CHOOSE j \in 1 .. Len(WINNING_COMBINATIONS) :
         /\ j >= k
         /\ ComboWins(b, j)
         /\ \A i \in 1 .. Len(WINNING_COMBINATIONS) : (i >= k /\ ComboWins(b, i)) => j <= i
  ELSE 0

NoLine == << >>

NoResult == [winner |-> Null, line |-> NoLine]

\* checkGameStatus testing for a full board before the combinations
checkGameStatus_DrawFirst(currentBoard) ==
  LET k == FirstWinningComboFrom(currentBoard, 1)
  IN  IF \A i \in Cells : currentBoard[i] # Null
      THEN [winner |-> "draw", line |-> NoLine]
      ELSE IF k # 0
           THEN [winner |-> currentBoard[WINNING_COMBINATIONS[k][1]],
                 line |-> WINNING_COMBINATIONS[k]]
           ELSE NoResult

checkGameStatus(currentBoard) ==
  LET k == FirstWinningComboFrom(currentBoard, 1)
  IN  IF k # 0
      THEN [winner |-> currentBoard[WINNING_COMBINATIONS[k][1]],
            line |-> WINNING_COMBINATIONS[k]]
      ELSE IF \A i \in Cells : currentBoard[i] # Null
           THEN [winner |-> "draw", line |-> NoLine]
           ELSE NoResult

\* ------------------------------------------------------------- room documents
BlankRoom ==
  [status |-> Null,
   player1 |-> [name |-> Null, symbol |-> Null, joined |-> FALSE],
   player2 |-> [name |-> Null, symbol |-> Null, joined |-> FALSE],
   board |-> EMPTY_BOARD, currentTurn |-> Null, winner |-> Null]

\* A multi-path update: a record whose fields are the paths written under
\* rooms/{code}. Paths: status, player1, player2, player1_joined,
\* player2_joined, board, currentTurn, winner, lastMoveTimestamp (the last
\* one is kept in the variable lastMoveTimestamp, apart from the fields the
\* clients read).
Has(patch, path) == path \in DOMAIN patch

ApplyPatch(room, patch) ==
  LET base == IF room = NoRoom THEN BlankRoom ELSE room
      p1 == IF Has(patch, "player1") THEN patch.player1 ELSE base.player1
      p2 == IF Has(patch, "player2") THEN patch.player2 ELSE base.player2
  IN  [status |-> IF Has(patch, "status") THEN patch.status ELSE base.status,
       player1 |-> IF Has(patch, "player1_joined")
                   THEN [p1 EXCEPT !.joined = patch.player1_joined] ELSE p1,
       player2 |-> IF Has(patch, "player2_joined")
                   THEN [p2 EXCEPT !.joined = patch.player2_joined] ELSE p2,
       board |-> IF Has(patch, "board") THEN patch.board ELSE base.board,
       currentTurn |-> IF Has(patch, "currentTurn") THEN patch.currentTurn
                       ELSE base.currentTurn,
       winner |-> IF Has(patch, "winner") THEN patch.winner ELSE base.winner]

\* set(roomRef, initialData) replaces the whole document.
IsWholeDocument(patch) ==
  {"status", "player1", "player2", "board", "currentTurn", "winner"} \subseteq DOMAIN patch

\* createRoom writing the player2 slot as taken
initialData_Player2Joined(playerName) ==
  [status |-> "WAITING",
   player1 |-> [name |-> playerName, symbol |-> "X", joined |-> TRUE],
   player2 |-> [name |-> "", symbol |-> "O", joined |-> TRUE],
   board |-> EMPTY_BOARD, currentTurn |-> "X", winner |-> Null,
   lastMoveTimestamp |-> now]

\* createRoom: the document written by set(roomRef, initialData)
initialData(playerName) ==
  [status |-> "WAITING",
   player1 |-> [name |-> playerName, symbol |-> "X", joined |-> TRUE],
   player2 |-> [name |-> "", symbol |-> "O", joined |-> FALSE],
   board |-> EMPTY_BOARD, currentTurn |-> "X", winner |-> Null,
   lastMoveTimestamp |-> now]

\* joinRoom without the check of player2.joined
joinRoomCheck_NoFullCheck(room) ==
  IF room = NoRoom THEN "missing" ELSE "free"

\* joinRoom: the outcome of the read (snapshot.exists(), data.players.player2.joined)
joinRoomCheck(room) ==
  IF room = NoRoom THEN "missing"
  ELSE IF room.player2.joined THEN "full"
  ELSE "free"

\* joinRoom writing a fresh match along with the player2 slot
joinRoomUpdates_ResetsMatch(playerName) ==
  [player2 |-> [name |-> playerName, symbol |-> "O", joined |-> TRUE],
   status |-> "PLAYING", board |-> EMPTY_BOARD, currentTurn |-> "X"]

\* joinRoom writing the player2 slot without the status
joinRoomUpdates_NoStatus(playerName) ==
  [player2 |-> [name |-> playerName, symbol |-> "O", joined |-> TRUE]]

\* joinRoom: the multi-path update
joinRoomUpdates(playerName) ==
  [player2 |-> [name |-> playerName, symbol |-> "O", joined |-> TRUE],
   status |-> "PLAYING"]

\* updateGameState writing winner and status whatever the winner passed
updateGameStateUpdates_AlwaysWinner(newBoard, nextTurn, win) ==
  [board |-> newBoard, currentTurn |-> nextTurn, lastMoveTimestamp |-> now,
   winner |-> win, status |-> "FINISHED"]

\* updateGameState: the multi-path update
updateGameStateUpdates(newBoard, nextTurn, win) ==
  IF win # Null
  THEN [board |-> newBoard, currentTurn |-> nextTurn, lastMoveTimestamp |-> now,
        winner |-> win, status |-> "FINISHED"]
  ELSE [board |-> newBoard, currentTurn |-> nextTurn, lastMoveTimestamp |-> now]

\* leaveRoom putting the room back to WAITING as well
leaveRoomUpdates_AlsoStatus(isPlayer1) ==
  IF isPlayer1 THEN [player1_joined |-> FALSE, status |-> "WAITING"]
  ELSE [player2_joined |-> FALSE, status |-> "WAITING"]

\* leaveRoom: the multi-path update
leaveRoomUpdates(isPlayer1) ==
  IF isPlayer1 THEN [player1_joined |-> FALSE] ELSE [player2_joined |-> FALSE]

\* the deferred write putting the room back to WAITING as well
onDisconnectUpdates_AlsoStatus(slots) ==
  IF slots = {"player1"} THEN [player1_joined |-> FALSE, status |-> "WAITING"]
  ELSE IF slots = {"player2"} THEN [player2_joined |-> FALSE, status |-> "WAITING"]
  ELSE [player1_joined |-> FALSE, player2_joined |-> FALSE, status |-> "WAITING"]

\* onDisconnect(pJoinedRef).set(false), for the slot armed
onDisconnectUpdates(slots) ==
  IF slots = {"player1"} THEN [player1_joined |-> FALSE]
  ELSE IF slots = {"player2"} THEN [player2_joined |-> FALSE]
  ELSE [player1_joined |-> FALSE, player2_joined |-> FALSE]

\* ------------------------------------------------------------ the App state
NoScore == [X |-> 0, O |-> 0, Draws |-> 0]

InitApp ==
  [build |-> "game",
   view |-> "LANDING", gameMode |-> "SINGLE", difficulty |-> "MEDIUM",
   board |-> EMPTY_BOARD, currentTurn |-> "X", winner |-> Null,
   winningLine |-> NoLine,
   roomCode |-> NoCode, mySymbol |-> Null, opponentConnected |-> FALSE,
   isProcessing |-> FALSE, errorMsg |-> "",
   hasTransitionedToGame |-> FALSE,
   soundEnabled |-> TRUE, score |-> NoScore]

\* the counter of a result
scoreKey(winner) == IF winner = "draw" THEN "Draws" ELSE winner

\* The "End Game Sound & Score Update" effect (deps winner, soundEnabled)
\* after the render that takes the App state from s to t
scoreEffect(s, t) ==
  IF (t.winner # s.winner \/ t.soundEnabled # s.soundEnabled) /\ t.winner # Null
  THEN [t EXCEPT !.score[scoreKey(t.winner)] = IF @ < MaxScore THEN @ + 1 ELSE @]
  ELSE t

\* the results a client has counted; a further match is started with
\* "Play Again" while they are fewer than MaxScore
scoreTotal(s) == s.score.X + s.score.O + s.score.Draws

\* resetBoard
resetBoard(s) ==
  [s EXCEPT !.board = EMPTY_BOARD, !.currentTurn = "X", !.winner = Null,
            !.winningLine = NoLine]

\* The subscription callback: the line recomputed for a decided snapshot
\* (the loop sets it for the first matching combination and breaks).
callbackWinningLine(s, data) ==
  IF data.winner # Null
  THEN IF data.winner # "draw"
       THEN LET k == FirstWinningComboFrom(data.board, 1)
            IN  IF k # 0 THEN WINNING_COMBINATIONS[k] ELSE s.winningLine
       ELSE NoLine
  ELSE NoLine

\* the callback scheduling the lobby transition without looking at its latch
schedulesTransition_NoLatch(s, data) ==
  data.player2.joined

\* The subscription callback: whether it schedules the lobby transition
schedulesTransition(s, data) ==
  ~s.hasTransitionedToGame /\ data.player2.joined

\* the callback leaving the winner of the client as it is
roomCallback_IgnoresWinner(s, data) ==
  LET isP1 == s.mySymbol = "X"
      opponent == IF isP1 THEN data.player2 ELSE data.player1
  IN  [s EXCEPT
         !.board = data.board,
         !.currentTurn = data.currentTurn,
         !.opponentConnected = opponent.joined,
         !.hasTransitionedToGame = s.hasTransitionedToGame \/ data.player2.joined]

\* the callback reporting a left opponent after the match is decided too
roomCallback_DisconnectedAfterWin(s, data) ==
  LET isP1 == s.mySymbol = "X"
      opponent == IF isP1 THEN data.player2 ELSE data.player1
  IN  [s EXCEPT
         !.board = data.board,
         !.currentTurn = data.currentTurn,
         !.opponentConnected = opponent.joined,
         !.winner = data.winner,
         !.winningLine = callbackWinningLine(s, data),
         !.hasTransitionedToGame = s.hasTransitionedToGame \/ data.player2.joined,
         !.errorMsg = IF ~opponent.joined THEN "Opponent disconnected" ELSE ""]

\* the callback keeping the marks of the client that the snapshot lacks
roomCallback_MergesBoard(s, data) ==
  LET isP1 == s.mySymbol = "X"
      opponent == IF isP1 THEN data.player2 ELSE data.player1
  IN  [s EXCEPT
         !.board = [i \in Cells |-> IF data.board[i] # Null THEN data.board[i]
                                    ELSE s.board[i]],
         !.currentTurn = data.currentTurn,
         !.opponentConnected = opponent.joined,
         !.winner = data.winner,
         !.winningLine = callbackWinningLine(s, data),
         !.hasTransitionedToGame = s.hasTransitionedToGame \/ data.player2.joined,
         !.errorMsg = IF data.winner # Null THEN ""
                      ELSE IF ~opponent.joined THEN "Opponent disconnected"
                      ELSE ""]

\* The subscription callback, applied to the state s of the client
roomCallback(s, data) ==
  LET isP1 == s.mySymbol = "X"
      opponent == IF isP1 THEN data.player2 ELSE data.player1
  IN  [s EXCEPT
         !.board = data.board,
         !.currentTurn = data.currentTurn,
         !.opponentConnected = opponent.joined,
         !.winner = data.winner,
         !.winningLine = callbackWinningLine(s, data),
         !.hasTransitionedToGame = s.hasTransitionedToGame \/ data.player2.joined,
         !.errorMsg = IF data.winner # Null THEN ""
                      ELSE IF ~opponent.joined THEN "Opponent disconnected"
                      ELSE ""]

\* ------------------------------------------------------------ store plumbing
\* The writer's own listener fires inside update()/set() when it has a
\* complete cached document for the room.
Echoes(c, code, patch) ==
  sub[c] = code /\ (known[c] # NoRoom \/ IsWholeDocument(patch))

EchoData(c, patch) == ApplyPatch(known[c], patch)

\* The client state after the local echo of its own write
AfterEcho(c, code, patch, s) ==
  IF Echoes(c, code, patch) THEN roomCallback(s, EchoData(c, patch)) ELSE s

EchoSchedules(c, code, patch, s) ==
  Echoes(c, code, patch) /\ schedulesTransition(s, EchoData(c, patch))

\* Every other subscriber of the room has space for one more snapshot.
CanCommit(c, code) ==
  \A d \in Clients \ {c} : sub[d] = code => Len(inbox[d]) < MaxInbox

RoomsAfter(code, patch) == [rooms EXCEPT ![code] = ApplyPatch(@, patch)]

StampAfter(code, patch) ==
  IF Has(patch, "lastMoveTimestamp")
  THEN [lastMoveTimestamp EXCEPT ![code] = patch.lastMoveTimestamp]
  ELSE lastMoveTimestamp

KnownAfter(c, code, patch) ==
  IF Echoes(c, code, patch)
  THEN [known EXCEPT ![c] = EchoData(c, patch)]
  ELSE known

InboxAfter(c, code, patch) ==
  [d \in Clients |->
     IF sub[d] # code THEN inbox[d]
     ELSE IF d # c THEN Append(inbox[d], ApplyPatch(rooms[code], patch))
     ELSE IF inbox[d] = << >> /\ ~Echoes(c, code, patch)
          THEN << ApplyPatch(rooms[code], patch) >>
          ELSE [i \in 1 .. Len(inbox[d]) |-> ApplyPatch(inbox[d][i], patch)]]

\* The subscription effect (deps gameMode, roomCode, mySymbol): the room the
\* listener is attached to after a render with state s.
WantedSub(s) ==
  IF s.gameMode = "ONLINE" /\ s.roomCode # NoCode THEN s.roomCode ELSE NoCode

DepsChanged(s, t) ==
  <<s.gameMode, s.roomCode, s.mySymbol>> # <<t.gameMode, t.roomCode, t.mySymbol>>

\* The effect re-runs when a dependency changed: detach, then attach and let
\* the server send the current document (null documents are not passed on).
\* subscribeToRoom(code, callback): the room its listener is attached to,
\* none when it returned `() => {}`
subscribeToRoom_NoDbCheck(c, code) == code

subscribeToRoom(c, code) == IF db[c] THEN code ELSE NoCode

\* the effect without its cleanup: the listener stays when none is wanted
SubAfter_NoCleanup(c, s, t, sub1) ==
  IF DepsChanged(s, t) /\ WantedSub(t) # NoCode
  THEN [sub1 EXCEPT ![c] = subscribeToRoom(c, WantedSub(t))] ELSE sub1

SubAfter(c, s, t, sub1) ==
  IF DepsChanged(s, t)
  THEN [sub1 EXCEPT ![c] = subscribeToRoom(c, WantedSub(t))] ELSE sub1

KnownAfterEffect(c, s, t, known1) ==
  IF DepsChanged(s, t) THEN [known1 EXCEPT ![c] = NoRoom] ELSE known1

InboxAfterEffect(c, s, t, inbox1, rooms1) ==
  IF DepsChanged(s, t)
  THEN [inbox1 EXCEPT ![c] =
          IF /\ subscribeToRoom(c, WantedSub(t)) # NoCode
             /\ rooms1[WantedSub(t)] # NoRoom
          THEN << rooms1[WantedSub(t)] >> ELSE << >>]
  ELSE inbox1

\* what a listener has heard when it is attached in view v
NoHeard(v) == [view |-> v, joined |-> 0, issued |-> 0]

UpTo(n, yes) == IF yes /\ n < MaxHeard THEN n + 1 ELSE n

\* the callback is invoked with data while the App state is s
Hear(h, s, data) ==
  [h EXCEPT !.joined = UpTo(@, data.player2.joined),
            !.issued = UpTo(@, schedulesTransition(s, data))]

\* A handler of client c ends in state t with the cache known1: the cache
\* changed when the listener fired inside a write of the handler, and the
\* listener is attached anew when the effect re-ran.
HeardAfter(c, t, known1) ==
  IF DepsChanged(app[c], t) THEN NoHeard(t.view)
  ELSE IF known1[c] # known[c] THEN Hear(heard[c], app[c], known1[c])
  ELSE heard[c]

Call(op, c, arg, ret) == [op |-> op, client |-> c, arg |-> arg, ret |-> ret]

\* what `last` holds after a step that is not a call of interest
Quiet == Call("other", "none", NoCode, "void")

\* The state after a handler of client c: its new App state t, the store as
\* the handler left it, and the subscription effect re-run if its deps changed.
Finish(c, t, rooms1, known1, inbox1) ==
  /\ app' = [app EXCEPT ![c] = scoreEffect(app[c], t)]
  /\ rooms' = rooms1
  /\ sub' = SubAfter(c, app[c], t, sub)
  /\ known' = KnownAfterEffect(c, app[c], t, known1)
  /\ inbox' = InboxAfterEffect(c, app[c], t, inbox1, rooms1)
  /\ heard' = [heard EXCEPT ![c] = HeardAfter(c, t, known1)]

NoPend == [code |-> NoCode, snapshot |-> NoRoom]

\* updateGameState(code, board, nextTurn, winner) of client c, whose App
\* state is s when the call is made: `if (!db) return`, else the update
updateGameState(c, s, code, updates) ==
  IF db[c]
  THEN /\ CanCommit(c, code)
       /\ Finish(c, AfterEcho(c, code, updates, s), RoomsAfter(code, updates),
                 KnownAfter(c, code, updates), InboxAfter(c, code, updates))
       /\ lastMoveTimestamp' = StampAfter(code, updates)
  ELSE /\ Finish(c, s, rooms, known, inbox)
       /\ UNCHANGED lastMoveTimestamp

\* the App state of client c when its leaveRoom(code, isPlayer1) returns:
\* as it was after `if (!db) return`, else after the echo of the update
leaveRoomEcho(c, s, code, updates) ==
  IF db[c] THEN AfterEcho(c, code, updates, s) ELSE s

\* leaveRoom(code, isPlayer1) of client c, t the App state after the setters
\* of its caller: `if (!db) return`, else the update
leaveRoom(c, t, code, updates) ==
  IF db[c]
  THEN /\ CanCommit(c, code)
       /\ Finish(c, t, RoomsAfter(code, updates),
                 KnownAfter(c, code, updates), InboxAfter(c, code, updates))
  ELSE Finish(c, t, rooms, known, inbox)

\* a store write of client c schedules the lobby transition through the
\* echo to its own listener
WriteSchedules(c, s, code, updates) ==
  db[c] /\ EchoSchedules(c, code, updates, s)

AddTimer(c, yes) ==
  IF yes /\ timers[c] < MaxTimers THEN [timers EXCEPT ![c] = @ + 1] ELSE timers

\* The display name a client types is its own identity.
NameOf(c) == c

\* ------------------------------------------------------------------- menus
\* LANDING -> ONLINE_MENU -> CREATE_ROOM: the two menu clicks, taken together
openCreateRoom(c) ==
  /\ pc[c] = "idle"
  /\ app[c].view = "LANDING"
  /\ sessions > 0
  /\ sessions' = sessions - 1
  /\ Finish(c, [app[c] EXCEPT !.view = "CREATE_ROOM"], rooms, known, inbox)
  /\ last' = Quiet
  /\ UNCHANGED <<db, now, detach, lastMoveTimestamp, onDisc, pc, pend, timers, waitingJoins, placed>>

\* LANDING -> ONLINE_MENU -> JOIN_ROOM and the room code typed into the input
\* of the JOIN_ROOM view (setRoomCode), taken together
openJoinRoom(c, code) ==
  /\ pc[c] = "idle"
  /\ app[c].view = "LANDING"
  /\ code = NoCode => app[c].roomCode = NoCode
  /\ sessions > 0
  /\ sessions' = sessions - 1
  /\ Finish(c, [app[c] EXCEPT !.view = "JOIN_ROOM", !.roomCode = code],
            rooms, known, inbox)
  /\ last' = Quiet
  /\ UNCHANGED <<db, now, detach, lastMoveTimestamp, onDisc, pc, pend, timers, waitingJoins, placed>>

\* the back arrows of CREATE_ROOM and JOIN_ROOM (then of ONLINE_MENU) and of
\* MODE_SELECT
menuBack(c) ==
  /\ pc[c] = "idle"
  /\ app[c].view \in {"CREATE_ROOM", "JOIN_ROOM", "MODE_SELECT"}
  /\ Finish(c, [app[c] EXCEPT !.view = "LANDING"], rooms, known, inbox)
  /\ last' = Quiet
  /\ UNCHANGED <<db, now, detach, lastMoveTimestamp, onDisc, pc, pend, timers, waitingJoins, sessions, placed>>

\* ------------------------------------------------------- handleCreateRoom
\* up to `await set(roomRef, initialData)`
createRoomSet(c, code) ==
  LET patch == initialData(NameOf(c))
      s == [app[c] EXCEPT !.isProcessing = TRUE]
  IN  /\ pc[c] = "idle"
      /\ app[c].view = "CREATE_ROOM"
      /\ ~app[c].isProcessing
      /\ db[c]
      /\ CanCommit(c, code)
      /\ Finish(c, AfterEcho(c, code, patch, s), RoomsAfter(code, patch),
                KnownAfter(c, code, patch), InboxAfter(c, code, patch))
      /\ timers' = AddTimer(c, EchoSchedules(c, code, patch, s))
      /\ pc' = [pc EXCEPT ![c] = "createRoom_set"]
      /\ pend' = [pend EXCEPT ![c] = [NoPend EXCEPT !.code = code]]
      /\ waitingJoins' = [waitingJoins EXCEPT ![code] = {}]
      /\ last' = Call("createRoom", c, code, "pending")
      /\ placed' = [placed EXCEPT ![code] = Null]
      /\ lastMoveTimestamp' = StampAfter(code, patch)
      /\ UNCHANGED <<db, now, detach, onDisc, sessions>>

\* createRoom resumes: onDisconnect, return code; then the handler's setters
createRoomDone(c) ==
  LET code == pend[c].code
      t == [resetBoard(app[c]) EXCEPT
              !.roomCode = code, !.mySymbol = "X", !.gameMode = "ONLINE",
              !.hasTransitionedToGame = FALSE, !.view = "LOBBY",
              !.isProcessing = FALSE]
  IN  /\ pc[c] = "createRoom_set"
      /\ onDisc' = [onDisc EXCEPT ![c] = @ \cup {<<code, "player1">>}]
      /\ Finish(c, t, rooms, known, inbox)
      /\ pc' = [pc EXCEPT ![c] = "idle"]
      /\ pend' = [pend EXCEPT ![c] = NoPend]
      /\ last' = Call("createRoom", c, code, code)
      /\ UNCHANGED <<db, now, detach, lastMoveTimestamp, timers, waitingJoins, sessions, placed>>

\* --------------------------------------------------------- handleJoinRoom
\* the length check, which returns before any request
joinRoomInvalidCode(c) ==
  /\ pc[c] = "idle"
  /\ app[c].view = "JOIN_ROOM"
  /\ ~app[c].isProcessing
  /\ app[c].roomCode = NoCode
  /\ Finish(c, [app[c] EXCEPT !.errorMsg = "Invalid Code"], rooms, known, inbox)
  /\ last' = Quiet
  /\ UNCHANGED <<db, now, detach, lastMoveTimestamp, onDisc, pc, pend, timers, waitingJoins, sessions, placed>>

\* up to `await get(roomRef)`: the server answers with its document
joinRoomGet(c) ==
  LET code == app[c].roomCode
  IN  /\ pc[c] = "idle"
      /\ app[c].view = "JOIN_ROOM"
      /\ ~app[c].isProcessing
      /\ code # NoCode
      /\ db[c]
      /\ Finish(c, [app[c] EXCEPT !.isProcessing = TRUE, !.errorMsg = ""],
                rooms, known, inbox)
      /\ pc' = [pc EXCEPT ![c] = "joinRoom_get"]
      /\ pend' = [pend EXCEPT ![c] = [code |-> code, snapshot |-> rooms[code]]]
      /\ last' = Call("joinRoom", c, code, "pending")
      /\ UNCHANGED <<db, now, detach, lastMoveTimestamp, onDisc, timers, waitingJoins, sessions, placed>>

\* joinRoom resumes with the snapshot and returns false: no room, or full
joinRoomFail(c) ==
  /\ pc[c] = "joinRoom_get"
  /\ joinRoomCheck(pend[c].snapshot) # "free"
  /\ Finish(c, [app[c] EXCEPT !.errorMsg = "Room not found or full",
                              !.isProcessing = FALSE],
            rooms, known, inbox)
  /\ pc' = [pc EXCEPT ![c] = "idle"]
  /\ pend' = [pend EXCEPT ![c] = NoPend]
  /\ last' = Call("joinRoom", c, pend[c].code, "false")
  /\ UNCHANGED <<db, now, detach, lastMoveTimestamp, onDisc, timers, waitingJoins, sessions, placed>>

\* joinRoom resumes with the snapshot and issues the multi-path update
joinRoomUpdate(c) ==
  LET code == pend[c].code
      patch == joinRoomUpdates(NameOf(c))
  IN  /\ pc[c] = "joinRoom_get"
      /\ joinRoomCheck(pend[c].snapshot) = "free"
      /\ CanCommit(c, code)
      /\ Finish(c, AfterEcho(c, code, patch, app[c]), RoomsAfter(code, patch),
                KnownAfter(c, code, patch), InboxAfter(c, code, patch))
      /\ timers' = AddTimer(c, EchoSchedules(c, code, patch, app[c]))
      /\ pc' = [pc EXCEPT ![c] = "joinRoom_update"]
      /\ last' = Call("joinRoom", c, code, "update")
      /\ UNCHANGED <<db, now, detach, lastMoveTimestamp, onDisc, pend, waitingJoins, sessions, placed>>

\* joinRoom resumes: onDisconnect, return true; then the handler's setters
joinRoomDone(c) ==
  LET code == pend[c].code
      t == [resetBoard(app[c]) EXCEPT
              !.mySymbol = "O", !.gameMode = "ONLINE", !.view = "GAME",
              !.isProcessing = FALSE]
  IN  /\ pc[c] = "joinRoom_update"
      /\ onDisc' = [onDisc EXCEPT ![c] = @ \cup {<<code, "player2">>}]
      /\ Finish(c, t, rooms, known, inbox)
      /\ pc' = [pc EXCEPT ![c] = "idle"]
      /\ pend' = [pend EXCEPT ![c] = NoPend]
      /\ waitingJoins' =
           IF pend[c].snapshot.status = "WAITING"
           THEN [waitingJoins EXCEPT ![code] = @ \cup {c}]
           ELSE waitingJoins
      /\ last' = Call("joinRoom", c, code, "true")
      /\ UNCHANGED <<db, now, detach, lastMoveTimestamp, timers, sessions, placed>>

\* ------------------------------------------------- the subscription callback
Deliver(c) ==
  LET data == Head(inbox[c])
  IN  /\ inbox[c] # << >>
      /\ app' = [app EXCEPT ![c] = scoreEffect(app[c], roomCallback(app[c], data))]
      /\ known' = [known EXCEPT ![c] = data]
      /\ inbox' = [inbox EXCEPT ![c] = Tail(@)]
      /\ timers' = AddTimer(c, schedulesTransition(app[c], data))
      /\ heard' = [heard EXCEPT ![c] = Hear(@, app[c], data)]
      /\ last' = Quiet
      /\ UNCHANGED <<db, now, detach, lastMoveTimestamp, rooms, onDisc, sub, pc, pend, waitingJoins, sessions, placed>>

\* the setTimeout body of the lobby transition
transitionTimer(c) ==
  /\ timers[c] > 0
  /\ timers' = [timers EXCEPT ![c] = @ - 1]
  /\ app' = [app EXCEPT ![c].view = IF @ = "LOBBY" THEN "GAME" ELSE @]
  /\ last' = Quiet
  /\ UNCHANGED <<heard, db, now, detach, lastMoveTimestamp, rooms, onDisc, sub, known, inbox, pc, pend, waitingJoins, sessions, placed>>

\* ------------------------------------------------------------- handleMove
\* handleMove without the check of the cell
moveRejected_NoCellCheck(s, index) ==
  \/ s.winner # Null
  \/ /\ s.gameMode = "ONLINE"
     /\ \/ s.currentTurn # s.mySymbol
        \/ ~s.opponentConnected

\* handleMove without the turn check of the online mode
moveRejected_NoTurnCheck(s, index) ==
  \/ s.board[index] # Null
  \/ s.winner # Null
  \/ (s.gameMode = "ONLINE" /\ ~s.opponentConnected)

\* the early returns of handleMove
moveRejected(s, index) ==
  \/ s.board[index] # Null
  \/ s.winner # Null
  \/ /\ s.gameMode = "ONLINE"
     /\ \/ s.currentTurn # s.mySymbol
        \/ ~s.opponentConnected

placeMark(s, index) == [s.board EXCEPT ![index] = s.currentTurn]

otherSymbol(turn) == IF turn = "X" THEN "O" ELSE "X"

\* handleMove of the local and single-player modes: the state setters
applyLocalMove(s, index) ==
  LET newBoard == placeMark(s, index)
      result == checkGameStatus(newBoard)
  IN  IF result # NoResult
      THEN [s EXCEPT !.board = newBoard, !.winner = result.winner,
                     !.winningLine = result.line]
      ELSE [s EXCEPT !.board = newBoard,
                     !.currentTurn = otherSymbol(s.currentTurn)]

\* handleMove of the online mode: the update pushed with updateGameState
movePush(s, index) ==
  LET newBoard == placeMark(s, index)
  IN  updateGameStateUpdates(newBoard, otherSymbol(s.currentTurn),
                             checkGameStatus(newBoard).winner)

handleMoveRejected(c, index) ==
  /\ pc[c] = "idle"
  /\ app[c].view = "GAME"
  /\ moveRejected(app[c], index)
  /\ last' = Call("handleMove", c, NoCode, "rejected")
  /\ UNCHANGED <<heard, db, now, detach, lastMoveTimestamp, rooms, onDisc, app, sub, known, inbox, pc, pend, timers,
                 waitingJoins, sessions, placed>>

handleMoveOnline(c, index) ==
  LET s == app[c]
      code == s.roomCode
      patch == movePush(s, index)
  IN  /\ pc[c] = "idle"
      /\ s.view = "GAME"
      /\ ~moveRejected(s, index)
      /\ s.gameMode = "ONLINE"
      /\ updateGameState(c, s, code, patch)
      /\ timers' = AddTimer(c, WriteSchedules(c, s, code, patch))
      /\ last' = Call("handleMove", c, NoCode, "accepted")
      /\ placed' = [placed EXCEPT ![code] = s.currentTurn]
      /\ UNCHANGED <<db, now, detach, onDisc, pc, pend, waitingJoins, sessions>>

\* --------------------------------------------------------- handlePlayAgain
handlePlayAgainOnline(c) ==
  LET s == resetBoard(app[c])
      code == s.roomCode
      patch == updateGameStateUpdates(EMPTY_BOARD, "X", Null)
  IN  /\ pc[c] = "idle"
      /\ app[c].view = "GAME"
      /\ app[c].winner # Null
      /\ app[c].gameMode = "ONLINE"
      /\ scoreTotal(app[c]) < MaxScore
      /\ updateGameState(c, s, code, patch)
      /\ timers' = AddTimer(c, WriteSchedules(c, s, code, patch))
      /\ last' = Call("handlePlayAgain", c, code, "void")
      /\ placed' = [placed EXCEPT ![code] = Null]
      /\ UNCHANGED <<db, now, detach, onDisc, pc, pend, waitingJoins, sessions>>

\* ------------------------------------------------------------------ goBack
\* the setters of goBack, after leaveRoom was called
goBackSetters(s) ==
  [s EXCEPT !.view = "LANDING", !.roomCode = NoCode, !.board = EMPTY_BOARD,
            !.winner = Null]

goBackOnline(c) ==
  LET s == app[c]
      code == s.roomCode
      patch == leaveRoomUpdates(s.mySymbol = "X")
  IN  /\ pc[c] = "idle"
      /\ s.view \in {"GAME", "LOBBY"}
      /\ s.gameMode = "ONLINE"
      /\ leaveRoom(c, goBackSetters(leaveRoomEcho(c, s, code, patch)), code, patch)
      /\ timers' = AddTimer(c, WriteSchedules(c, s, code, patch))
      /\ last' = Call("leaveRoom", c, code, IF s.mySymbol = "X" THEN "player1" ELSE "player2")
      /\ UNCHANGED <<db, now, detach, lastMoveTimestamp, onDisc, pc, pend, waitingJoins, sessions, placed>>

\* --------------------------------------------------- transport disconnect
\* The server commits the deferred writes of a client whose connection drops.
DiscSlots(c, code) == {slot \in {"player1", "player2"} : <<code, slot>> \in onDisc[c]}

DiscCodes(c) == {code \in Codes : DiscSlots(c, code) # {}}

Disconnect(c) ==
  /\ onDisc[c] # {}
  /\ \A d \in Clients : sub[d] \in DiscCodes(c) => Len(inbox[d]) < MaxInbox
  /\ rooms' = [code \in Codes |->
                 IF code \in DiscCodes(c)
                 THEN ApplyPatch(rooms[code], onDisconnectUpdates(DiscSlots(c, code)))
                 ELSE rooms[code]]
  /\ inbox' = [d \in Clients |->
                 IF sub[d] \in DiscCodes(c)
                 THEN Append(inbox[d], rooms'[sub[d]]) ELSE inbox[d]]
  /\ onDisc' = [onDisc EXCEPT ![c] = {}]
  /\ last' = Quiet
  /\ UNCHANGED <<heard, db, now, detach, lastMoveTimestamp, app, sub, known, pc, pend, timers, waitingJoins, sessions, placed>>

\* ------------------------------------------------ single player, same device
Difficulties == {"EASY", "MEDIUM"}

\* the `disabled` attribute of a Square
squareDisabled(s, index) ==
  \/ s.board[index] # Null
  \/ s.winner # Null
  \/ (s.gameMode = "ONLINE" /\ s.currentTurn # s.mySymbol)
  \/ (s.gameMode = "SINGLE" /\ s.currentTurn = "O")

\* src/App.tsx, handleMove: the setters of a move that is not rejected
\* (the online push of this build is issued after them)
applyMoveRoot(s, index) ==
  LET newBoard == placeMark(s, index)
      result == checkGameStatus(newBoard)
      s1 == [s EXCEPT !.board = newBoard]
  IN  IF result # NoResult
      THEN [s1 EXCEPT !.winner = result.winner, !.winningLine = result.line]
      ELSE [s1 EXCEPT !.currentTurn = otherSymbol(s.currentTurn)]

appliedMove(s, index) ==
  IF s.build = "root" THEN applyMoveRoot(s, index) ELSE applyLocalMove(s, index)

\* LANDING, "Single Player"
selectSinglePlayer(c) ==
  /\ pc[c] = "idle"
  /\ app[c].view = "LANDING"
  /\ sessions > 0
  /\ sessions' = sessions - 1
  /\ Finish(c, [app[c] EXCEPT !.view = "MODE_SELECT", !.gameMode = "SINGLE"],
            rooms, known, inbox)
  /\ last' = Quiet
  /\ UNCHANGED <<db, now, detach, lastMoveTimestamp, onDisc, pc, pend, timers, waitingJoins, placed>>

\* startGame('SINGLE'), after handleDifficultyChange(diff)
startGameSingle(s, diff) ==
  [resetBoard(s) EXCEPT !.difficulty = diff, !.gameMode = "SINGLE",
                        !.mySymbol = "X", !.view = "GAME", !.score = NoScore]

startSingle(c, diff) ==
  /\ pc[c] = "idle"
  /\ app[c].view = "MODE_SELECT"
  /\ app[c].gameMode = "SINGLE"
  /\ Finish(c, startGameSingle(app[c], diff), rooms, known, inbox)
  /\ last' = Call("startGame", c, NoCode, "SINGLE")
  /\ placed' = [placed EXCEPT ![c] = Null]
  /\ UNCHANGED <<db, now, detach, lastMoveTimestamp, onDisc, pc, pend, timers, waitingJoins, sessions>>

\* "Start Local Game": setGameMode('LOCAL'); startGame('LOCAL'); setView('GAME')
startGameLocal(s) ==
  [s EXCEPT !.gameMode = "LOCAL", !.view = "GAME", !.score = NoScore]

\* LANDING -> ONLINE_MENU -> "Start Local Game", the two clicks taken together
startLocal(c) ==
  /\ pc[c] = "idle"
  /\ app[c].view = "LANDING"
  /\ sessions > 0
  /\ sessions' = sessions - 1
  /\ Finish(c, startGameLocal(app[c]), rooms, known, inbox)
  /\ last' = Call("startGame", c, NoCode, "LOCAL")
  /\ UNCHANGED <<db, now, detach, lastMoveTimestamp, onDisc, pc, pend, timers, waitingJoins, placed>>

\* a click on an enabled square, local and single-player modes
handleMoveLocal(c, index) ==
  /\ pc[c] = "idle"
  /\ app[c].view = "GAME"
  /\ app[c].gameMode # "ONLINE"
  /\ ~squareDisabled(app[c], index)
  /\ ~moveRejected(app[c], index)
  /\ Finish(c, appliedMove(app[c], index), rooms, known, inbox)
  /\ last' = Call("handleMove", c, NoCode, "accepted")
  /\ placed' = [placed EXCEPT ![c] = app[c].currentTurn]
  /\ UNCHANGED <<db, now, detach, lastMoveTimestamp, onDisc, pc, pend, timers, waitingJoins, sessions>>

\* services/ai.ts, checkWinner
checkWinner(b) ==
  LET k == FirstWinningComboFrom(b, 1)
  IN  IF k # 0 THEN b[WINNING_COMBINATIONS[k][1]]
      ELSE IF \A i \in Cells : b[i] # Null THEN "draw"
      ELSE Null

availableMoves(b) == {i \in Cells : b[i] = Null}

Least(S) == CHOOSE i \in S : \A j \in S : i <= j

\* Math.max and Math.min folded over the scores of a loop
MaxOf(S) == CHOOSE x \in S : \A y \in S : y <= x

MinOf(S) == CHOOSE x \in S : \A y \in S : x <= y

\* services/ai.ts, minimax: O maximizes, X minimizes
RECURSIVE minimax(_, _, _)
minimax(board, depth, isMaximizing) ==
  LET result == checkWinner(board)
  IN  IF result = "O" THEN 10 - depth
      ELSE IF result = "X" THEN depth - 10
      ELSE IF result = "draw" THEN 0
      ELSE IF isMaximizing
      THEN MaxOf({minimax([board EXCEPT ![i] = "O"], depth + 1, FALSE) :
                    i \in availableMoves(board)})
      ELSE MinOf({minimax([board EXCEPT ![i] = "X"], depth + 1, TRUE) :
                    i \in availableMoves(board)})

\* getBestMove drawing at random among the available moves at every difficulty
getBestMove_AlwaysRandom(b, difficulty) ==
  IF availableMoves(b) = {} THEN {0 - 1} ELSE availableMoves(b)

\* services/ai.ts, getBestMove: the cells it can return (EASY and MEDIUM draw
\* at random among the available moves; HARD returns the center on its first
\* move if free, else the first cell of the best minimax score)
getBestMove(b, difficulty) ==
  LET avail == availableMoves(b)
      wins == {m \in avail : checkWinner([b EXCEPT ![m] = "O"]) = "O"}
      blocks == {m \in avail : checkWinner([b EXCEPT ![m] = "X"]) = "X"}
      score == [i \in avail |-> minimax([b EXCEPT ![i] = "O"], 0, FALSE)]
      bestScore == MaxOf({score[i] : i \in avail})
  IN  IF avail = {} THEN {0 - 1}
      ELSE IF difficulty = "EASY" THEN avail
      ELSE IF difficulty = "MEDIUM"
      THEN IF wins # {} THEN {Least(wins)}
           ELSE IF blocks # {} THEN {Least(blocks)}
           ELSE avail
      ELSE IF Cardinality(avail) >= 8 /\ b[4] = Null THEN {4}
      ELSE {Least({i \in avail : score[i] = bestScore})}

\* the AI turn effect: the timer body
aiTurn(c, aiMove) ==
  /\ pc[c] = "idle"
  /\ app[c].gameMode = "SINGLE"
  /\ app[c].currentTurn = "O"
  /\ app[c].winner = Null
  /\ app[c].view = "GAME"
  /\ aiMove \in getBestMove(app[c].board, app[c].difficulty)
  /\ aiMove # 0 - 1
  /\ ~moveRejected(app[c], aiMove)
  /\ Finish(c, appliedMove(app[c], aiMove), rooms, known, inbox)
  /\ last' = Call("handleMove", c, NoCode, "accepted")
  /\ placed' = [placed EXCEPT ![c] = app[c].currentTurn]
  /\ UNCHANGED <<db, now, detach, lastMoveTimestamp, onDisc, pc, pend, timers, waitingJoins, sessions>>

handlePlayAgainLocal(c) ==
  /\ pc[c] = "idle"
  /\ app[c].view = "GAME"
  /\ app[c].winner # Null
  /\ app[c].gameMode # "ONLINE"
  /\ scoreTotal(app[c]) < MaxScore
  /\ Finish(c, resetBoard(app[c]), rooms, known, inbox)
  /\ last' = Call("handlePlayAgain", c, NoCode, "void")
  /\ placed' = [placed EXCEPT ![c] = Null]
  /\ UNCHANGED <<db, now, detach, lastMoveTimestamp, onDisc, pc, pend, timers, waitingJoins, sessions>>

goBackLocal(c) ==
  /\ pc[c] = "idle"
  /\ app[c].view = "GAME"
  /\ app[c].gameMode # "ONLINE"
  /\ Finish(c, goBackSetters(app[c]), rooms, known, inbox)
  /\ last' = Call("goBack", c, NoCode, "void")
  /\ placed' = [placed EXCEPT ![c] = Null]
  /\ UNCHANGED <<db, now, detach, lastMoveTimestamp, onDisc, pc, pend, timers, waitingJoins, sessions>>

\* handleSoundToggle, from the speaker icon of the LANDING and GAME views
handleSoundToggle(c) ==
  /\ pc[c] = "idle"
  /\ app[c].view \in {"LANDING", "GAME"}
  /\ Finish(c, [app[c] EXCEPT !.soundEnabled = ~@], rooms, known, inbox)
  /\ last' = Call("handleSoundToggle", c, NoCode, "void")
  /\ UNCHANGED <<db, now, detach, lastMoveTimestamp, onDisc, pc, pend, timers,
                 waitingJoins, sessions, placed>>

\* handleMove(index) of client c, whatever its outcome
HandleMove(c, index) ==
  \/ handleMoveRejected(c, index)
  \/ handleMoveOnline(c, index)
  \/ handleMoveLocal(c, index)
  \/ aiTurn(c, index)

\* the match state of a client: board, currentTurn, winner, winningLine
MatchState(s) == <<s.board, s.currentTurn, s.winner, s.winningLine>>

\* ------------------------------------------------------------ specification
\* no room exists under any of the codes
InitRooms(codes) ==
  /\ rooms = [code \in codes |-> NoRoom]
  /\ waitingJoins = [code \in codes |-> {}]
  /\ placed = [m \in codes \cup Clients |-> Null]
  /\ lastMoveTimestamp = [code \in codes |-> 0]

\* no client holds a listener, a pending call, a timer or a deferred write
InitClients ==
  /\ onDisc = [c \in Clients |-> {}]
  /\ sub = [c \in Clients |-> NoCode]
  /\ known = [c \in Clients |-> NoRoom]
  /\ inbox = [c \in Clients |-> << >>]
  /\ pc = [c \in Clients |-> "idle"]
  /\ pend = [c \in Clients |-> NoPend]
  /\ timers = [c \in Clients |-> 0]
  /\ last = Quiet
  /\ now = 0
  /\ detach = [c \in Clients |-> "none"]
  /\ heard = [c \in Clients |-> NoHeard("LANDING")]

InitStore ==
  /\ InitRooms(Codes)
  /\ InitClients

\* the module of every client has its database handle
InitDb == db = [c \in Clients |-> TRUE]

\* Two clients of the tic-tac-toe App, online in one room or offline
Init ==
  /\ InitStore
  /\ InitDb
  /\ app = [c \in Clients |-> InitApp]
  /\ sessions = MaxSessions

Lobby(c) ==
  \/ openCreateRoom(c)
  \/ \E code \in Codes \cup {NoCode} : openJoinRoom(c, code)
  \/ menuBack(c)
  \/ \E code \in Codes : createRoomSet(c, code)
  \/ createRoomDone(c)
  \/ joinRoomInvalidCode(c)
  \/ joinRoomGet(c)
  \/ joinRoomFail(c)
  \/ joinRoomUpdate(c)
  \/ joinRoomDone(c)
  \/ Deliver(c)
  \/ transitionTimer(c)
  \/ goBackOnline(c)
  \/ Disconnect(c)

Play(c) ==
  \/ \E index \in PlayCells : handleMoveRejected(c, index)
  \/ \E index \in PlayCells : handleMoveOnline(c, index)
  \/ handlePlayAgainOnline(c)

\* the single-player and same-device modes
Offline(c) ==
  \/ selectSinglePlayer(c)
  \/ \E diff \in Difficulties : startSingle(c, diff)
  \/ startLocal(c)
  \/ \E index \in PlayCells : handleMoveLocal(c, index)
  \/ \E aiMove \in PlayCells : aiTurn(c, aiMove)
  \/ handlePlayAgainLocal(c)
  \/ goBackLocal(c)

\* the client that also plays offline
LocalPlayer == "c1"

Next ==
  \/ \E c \in Players : Lobby(c) \/ Play(c)
  \/ Offline(LocalPlayer)

Spec == Init /\ [][Next]_vars

\* The same clients creating, joining and leaving rooms, with the opening
\* moves of a match only
InitLobby ==
  /\ InitStore
  /\ InitDb
  /\ app = [c \in Clients |-> InitApp]
  /\ sessions = MaxLobbySessions

NextLobby ==
  \E c \in Players :
    \/ Lobby(c)
    \/ \E index \in OpeningCells : handleMoveOnline(c, index)

SpecLobby == InitLobby /\ [][NextLobby]_vars

\* One client playing matches on the whole board in the single-player and
\* same-device modes, in either build of the App (games/tic-tac-toe/App.tsx,
\* src/App.tsx)
Builds == {"game", "root"}

InitLocal ==
  /\ InitStore
  /\ InitDb
  /\ \E b \in Builds :
       app = [c \in Clients |->
                IF c = LocalPlayer THEN [InitApp EXCEPT !.build = b] ELSE InitApp]
  /\ sessions = MaxLocalGames

NextLocal ==
  \E c \in {LocalPlayer} :
    \/ selectSinglePlayer(c)
    \/ \E diff \in Difficulties : startSingle(c, diff)
    \/ startLocal(c)
    \/ \E index \in Cells : handleMoveLocal(c, index)
    \/ \E index \in Cells : handleMoveRejected(c, index)
    \/ \E aiMove \in Cells : aiTurn(c, aiMove)
    \/ handlePlayAgainLocal(c)

SpecLocal == InitLocal /\ [][NextLocal]_vars

\* One client creating a room and two clients joining it, with the opening
\* moves of the match
Creator == "c1"
Joiners == {"c2", "c3"}

NextRace ==
  \/ openCreateRoom(Creator)
  \/ \E code \in Codes : createRoomSet(Creator, code)
  \/ createRoomDone(Creator)
  \/ \E c \in Joiners :
       \/ \E code \in Codes : openJoinRoom(c, code)
       \/ joinRoomGet(c)
       \/ joinRoomFail(c)
       \/ joinRoomUpdate(c)
       \/ joinRoomDone(c)
  \/ \E c \in Clients :
       \/ Deliver(c)
       \/ transitionTimer(c)
       \/ \E index \in OpeningCells : handleMoveOnline(c, index)

SpecRace == InitLobby /\ [][NextRace]_vars

\* ------------------------------------------- the repository, called directly
\* the clock of Date.now() advances
Tick ==
  /\ now < MaxClock
  /\ now' = now + 1
  /\ last' = Quiet
  /\ UNCHANGED <<heard, rooms, onDisc, app, sub, known, inbox, pc, pend, timers,
                 waitingJoins, placed, sessions, db, lastMoveTimestamp, detach>>

\* handleCreateRoom when createRoom throws "Database not initialized": the
\* catch block alerts, the view stays
createRoomThrows(c) ==
  /\ pc[c] = "idle"
  /\ app[c].view = "CREATE_ROOM"
  /\ ~app[c].isProcessing
  /\ ~db[c]
  /\ Finish(c, [app[c] EXCEPT !.isProcessing = FALSE], rooms, known, inbox)
  /\ last' = Call("createRoom", c, NoCode, "throws")
  /\ UNCHANGED <<db, now, detach, lastMoveTimestamp, onDisc, pc, pend, timers,
                 waitingJoins, sessions, placed>>

\* handleJoinRoom when joinRoom throws "Database not initialized": the catch
\* block sets "Connection error"
joinRoomThrows(c) ==
  /\ pc[c] = "idle"
  /\ app[c].view = "JOIN_ROOM"
  /\ ~app[c].isProcessing
  /\ app[c].roomCode # NoCode
  /\ ~db[c]
  /\ Finish(c, [app[c] EXCEPT !.errorMsg = "Connection error",
                              !.isProcessing = FALSE],
            rooms, known, inbox)
  /\ last' = Call("joinRoom", c, app[c].roomCode, "throws")
  /\ UNCHANGED <<db, now, detach, lastMoveTimestamp, onDisc, pc, pend, timers,
                 waitingJoins, sessions, placed>>

\* the boards and winners passed to updateGameState by a direct caller
RepositoryBoards == {EMPTY_BOARD, [EMPTY_BOARD EXCEPT ![0] = "X"]}

RepositoryWinners == {Null, "draw"}

\* updateGameState(code, board, nextTurn, winner) called directly
callUpdateGameState(c, code, board, nextTurn, winner) ==
  LET updates == updateGameStateUpdates(board, nextTurn, winner)
  IN  /\ pc[c] = "idle"
      /\ updateGameState(c, app[c], code, updates)
      /\ timers' = AddTimer(c, WriteSchedules(c, app[c], code, updates))
      /\ last' = Call("updateGameState", c, code, "void")
      /\ UNCHANGED <<db, now, detach, onDisc, pc, pend, waitingJoins, sessions, placed>>

\* leaveRoom(code, isPlayer1) called directly
callLeaveRoom(c, code, isPlayer1) ==
  LET updates == leaveRoomUpdates(isPlayer1)
  IN  /\ pc[c] = "idle"
      /\ leaveRoom(c, leaveRoomEcho(c, app[c], code, updates), code, updates)
      /\ timers' = AddTimer(c, WriteSchedules(c, app[c], code, updates))
      /\ last' = Call("leaveRoom", c, code, "void")
      /\ UNCHANGED <<db, now, detach, lastMoveTimestamp, onDisc, pc, pend,
                     waitingJoins, sessions, placed>>

\* subscribeToRoom(code, callback) called directly, with the callback of the
\* App, by a client whose App holds no listener
callSubscribeToRoom(c, code) ==
  LET attached == subscribeToRoom(c, code)
  IN  /\ pc[c] = "idle"
      /\ detach[c] = "none"
      /\ WantedSub(app[c]) = NoCode
      /\ sub' = [sub EXCEPT ![c] = attached]
      /\ known' = [known EXCEPT ![c] = NoRoom]
      /\ inbox' = [inbox EXCEPT ![c] =
                     IF attached # NoCode /\ rooms[attached] # NoRoom
                     THEN << rooms[attached] >> ELSE << >>]
      /\ detach' = [detach EXCEPT ![c] =
                      IF attached # NoCode THEN "unsubscribe" ELSE "inert"]
      /\ heard' = [heard EXCEPT ![c] = NoHeard(app[c].view)]
      /\ last' = Call("subscribeToRoom", c, code, detach'[c])
      /\ UNCHANGED <<db, now, lastMoveTimestamp, rooms, onDisc, app, pc, pend, timers,
                     waitingJoins, sessions, placed>>

\* the function subscribeToRoom returned is called
callDetach(c) ==
  /\ pc[c] = "idle"
  /\ detach[c] # "none"
  /\ WantedSub(app[c]) = NoCode
  /\ IF detach[c] = "unsubscribe"
     THEN /\ sub' = [sub EXCEPT ![c] = NoCode]
          /\ known' = [known EXCEPT ![c] = NoRoom]
          /\ inbox' = [inbox EXCEPT ![c] = << >>]
     ELSE UNCHANGED <<sub, known, inbox>>
  /\ detach' = [detach EXCEPT ![c] = "none"]
  /\ last' = Call("detach", c, NoCode, detach[c])
  /\ UNCHANGED <<heard, db, now, lastMoveTimestamp, rooms, onDisc, app, pc, pend, timers,
                 waitingJoins, sessions, placed>>

\* Two clients, the module of one of which has no database handle, using
\* the create view of the App (the client without handle the join view too)
\* and calling the repository directly
NoDbClient == "c2"

InitRepository ==
  /\ InitStore
  /\ db = [c \in Clients |-> c # NoDbClient]
  /\ app = [c \in Clients |-> InitApp]
  /\ sessions = MaxRepositorySessions

NextRepository ==
  \/ Tick
  \/ \E code \in Codes : openJoinRoom(NoDbClient, code)
  \/ \E c \in Players :
       \/ openCreateRoom(c)
       \/ menuBack(c)
       \/ \E code \in Codes : createRoomSet(c, code)
       \/ createRoomDone(c)
       \/ Deliver(c)
       \/ createRoomThrows(c)
       \/ joinRoomThrows(c)
       \/ \E code \in Codes, board \in RepositoryBoards, nextTurn \in {"O"},
             winner \in RepositoryWinners :
            callUpdateGameState(c, code, board, nextTurn, winner)
       \/ \E code \in Codes, isPlayer1 \in BOOLEAN : callLeaveRoom(c, code, isPlayer1)
       \/ \E code \in Codes : callSubscribeToRoom(c, code)
       \/ callDetach(c)

SpecRepository == InitRepository /\ [][NextRepository]_vars

\* One client creating a room, the other joining it, leaving it and joining
\* it again, and the matches they play on the cells 0 .. MaxCell
Joiner == "c2"

InitMatch ==
  /\ InitStore
  /\ InitDb
  /\ app = [c \in Clients |-> InitApp]
  /\ sessions = MaxMatchSessions

NextMatch ==
  \/ openCreateRoom(Creator)
  \/ \E code \in Codes : createRoomSet(Creator, code)
  \/ createRoomDone(Creator)
  \/ \E code \in Codes : openJoinRoom(Joiner, code)
  \/ joinRoomGet(Joiner)
  \/ joinRoomFail(Joiner)
  \/ joinRoomUpdate(Joiner)
  \/ joinRoomDone(Joiner)
  \/ goBackOnline(Joiner)
  \/ \E c \in Players :
       \/ Deliver(c)
       \/ transitionTimer(c)
       \/ \E index \in PlayCells : handleMoveOnline(c, index)
       \/ handlePlayAgainOnline(c)

SpecMatch == InitMatch /\ [][NextMatch]_vars

\* The end-to-end scenario: one client creates a room, the other joins it
\* and they play on the cells 0 .. MaxCell; the store answers every request
\* and delivers every snapshot, the players may stop at any time.
InitScenario ==
  /\ InitStore
  /\ InitDb
  /\ app = [c \in Clients |-> InitApp]
  /\ sessions = MaxScenarioSessions

NextScenario ==
  \/ openCreateRoom(Creator)
  \/ \E code \in Codes : createRoomSet(Creator, code)
  \/ createRoomDone(Creator)
  \/ \E code \in Codes : openJoinRoom(Joiner, code)
  \/ joinRoomGet(Joiner)
  \/ joinRoomFail(Joiner)
  \/ joinRoomUpdate(Joiner)
  \/ joinRoomDone(Joiner)
  \/ \E c \in Players :
       \/ Deliver(c)
       \/ transitionTimer(c)
       \/ \E index \in PlayCells : handleMoveOnline(c, index)

SpecScenario ==
  /\ InitScenario
  /\ [][NextScenario]_vars
  /\ \A c \in Players :
       /\ WF_vars(Deliver(c))
       /\ WF_vars(transitionTimer(c))
       /\ WF_vars(createRoomDone(c))
       /\ WF_vars(joinRoomFail(c))
       /\ WF_vars(joinRoomUpdate(c))
       /\ WF_vars(joinRoomDone(c))

\* One client creating a room, its code drawn by generateRoomCode from every
\* combination of the values of MathRandom
InitCodes ==
  /\ InitRooms(GeneratedCodes)
  /\ InitClients
  /\ InitDb
  /\ app = [c \in Clients |-> InitApp]
  /\ sessions = MaxSessions

NextCodes ==
  \/ openCreateRoom(Creator)
  \/ \E random \in Draws : createRoomSet(Creator, generateRoomCode(random))
  \/ createRoomDone(Creator)
  \/ Deliver(Creator)

SpecCodes == InitCodes /\ [][NextCodes]_vars

\* One client creating a room once; two others joining it, leaving it and
\* losing their connections
InitRejoin ==
  /\ InitStore
  /\ InitDb
  /\ app = [c \in Clients |-> InitApp]
  /\ sessions = MaxRejoinSessions

NextRejoin ==
  \/ openCreateRoom(Creator)
  \/ \E code \in Codes : createRoomSet(Creator, code)
  \/ createRoomDone(Creator)
  \/ \E c \in Joiners :
       \/ \E code \in Codes : openJoinRoom(c, code)
       \/ joinRoomGet(c)
       \/ joinRoomFail(c)
       \/ joinRoomUpdate(c)
       \/ joinRoomDone(c)
       \/ goBackOnline(c)
       \/ Disconnect(c)
  \/ \E c \in Clients :
       \/ Deliver(c)
       \/ transitionTimer(c)

SpecRejoin == InitRejoin /\ [][NextRejoin]_vars

\* One client playing same-device matches on the cells 0 .. MaxCell, with
\* the speaker icon
InitScore ==
  /\ InitStore
  /\ InitDb
  /\ app = [c \in Clients |-> InitApp]
  /\ sessions = MaxLocalGames

NextScore ==
  \/ startLocal(LocalPlayer)
  \/ \E index \in PlayCells : handleMoveLocal(LocalPlayer, index)
  \/ handlePlayAgainLocal(LocalPlayer)
  \/ handleSoundToggle(LocalPlayer)
  \/ goBackLocal(LocalPlayer)

SpecScore == InitScore /\ [][NextScore]_vars

\* One client playing single-player matches against the HARD AI on the
\* whole board
InitHard ==
  /\ InitStore
  /\ InitDb
  /\ app = [c \in Clients |-> InitApp]
  /\ sessions = MaxLocalGames

NextHard ==
  \/ selectSinglePlayer(LocalPlayer)
  \/ startSingle(LocalPlayer, "HARD")
  \/ \E index \in Cells : handleMoveLocal(LocalPlayer, index)
  \/ \E aiMove \in Cells : aiTurn(LocalPlayer, aiMove)
  \/ handlePlayAgainLocal(LocalPlayer)

SpecHard == InitHard /\ [][NextHard]_vars

\* ---------------------------------------------------------------- properties
\* C1: of the joinRoom calls that read a room with status WAITING and
\* player2.joined = false, at most one returns true: at most one second
\* player occupies a room.
C1_AtMostOneJoinReturnsTrue ==
  \A code \in Codes : Cardinality(waitingJoins[code]) <= 1

\* C2: in online mode, handleMove(index) called while the client's currentTurn
\* differs from its symbol, or while opponentConnected is false, changes
\* neither the client's board, currentTurn, winner and winningLine nor any
\* room document.
C2_OnlineMoveOutOfTurnChangesNothing ==
  [][\A c \in Clients, index \in Cells :
       ( /\ HandleMove(c, index)
         /\ app[c].gameMode = "ONLINE"
         /\ (app[c].currentTurn # app[c].mySymbol \/ ~app[c].opponentConnected) )
       => (MatchState(app'[c]) = MatchState(app[c]) /\ rooms' = rooms)]_vars

\* C2, witness: an online client whose opponent is connected was refused a
\* move on an empty board of an undecided match, when it was not its turn.
C2_Witness ==
  \E c \in Clients :
    /\ last = Call("handleMove", c, NoCode, "rejected")
    /\ app[c].gameMode = "ONLINE"
    /\ app[c].board = EMPTY_BOARD
    /\ app[c].winner = Null
    /\ app[c].currentTurn # app[c].mySymbol
    /\ app[c].opponentConnected

\* C3: in every mode, handleMove(index) on a cell that is occupied in the
\* client's board, or while the client's winner is set, leaves its board,
\* currentTurn, winner and winningLine unchanged and writes to no room.
C3_MoveOnOccupiedOrDecidedChangesNothing ==
  [][\A c \in Clients, index \in Cells :
       ( /\ HandleMove(c, index)
         /\ (app[c].board[index] # Null \/ app[c].winner # Null) )
       => (MatchState(app'[c]) = MatchState(app[c]) /\ rooms' = rooms)]_vars

\* C3, witness: an online client whose turn it is, with its opponent
\* connected, was refused a move on a board that holds a mark.
C3_Witness ==
  \E c \in Clients :
    /\ last = Call("handleMove", c, NoCode, "rejected")
    /\ app[c].gameMode = "ONLINE"
    /\ app[c].currentTurn = app[c].mySymbol
    /\ app[c].opponentConnected
    /\ app[c].board # EMPTY_BOARD

\* C4: a joinRoom call whose read finds no room under the code, or a room
\* with player2.joined = true, returns false and writes nothing: every room
\* document and every deferred write stay as they were, at the read and at
\* the return.
C4_JoinRoomFailsWithoutWrite ==
  [][\A c \in Clients :
       /\ (pc[c] = "idle" /\ pc'[c] = "joinRoom_get")
            => (rooms' = rooms /\ pend'[c].snapshot = rooms[app[c].roomCode])
       /\ ( /\ pc[c] = "joinRoom_get"
            /\ pc'[c] # "joinRoom_get"
            /\ (pend[c].snapshot = NoRoom \/ pend[c].snapshot.player2.joined) )
            => ( /\ last' = Call("joinRoom", c, pend[c].code, "false")
                 /\ rooms' = rooms
                 /\ onDisc' = onDisc )]_vars

\* C4, witness: joinRoom returned false to the creator of a room whose
\* player2 slot is held by another client.
C4_Witness ==
  \E c \in Clients, code \in Codes :
    /\ last = Call("joinRoom", c, code, "false")
    /\ rooms[code] # NoRoom
    /\ rooms[code].player1.name = NameOf(c)
    /\ rooms[code].player2.name # NameOf(c)
    /\ rooms[code].player2.joined

\* C5: a joinRoom call whose read finds a room with player2.joined = false
\* commits one write that sets player2 to {name, O, joined} and status to
\* PLAYING in the same step and leaves player1, board, currentTurn and winner
\* of the room, and every other room, as they were; it then returns true
\* without a further write.
C5_JoinRoomWritesSlotAndStatusTogether ==
  [][\A c \in Clients :
       /\ ( /\ pc[c] = "joinRoom_get"
            /\ pc'[c] # "joinRoom_get"
            /\ pend[c].snapshot # NoRoom
            /\ ~pend[c].snapshot.player2.joined )
            => ( /\ pc'[c] = "joinRoom_update"
                 /\ rooms' = [rooms EXCEPT ![pend[c].code] =
                                [@ EXCEPT !.player2 = [name |-> NameOf(c), symbol |-> "O",
                                                       joined |-> TRUE],
                                          !.status = "PLAYING"]] )
       /\ (pc[c] = "joinRoom_update" /\ pc'[c] # "joinRoom_update")
            => ( /\ last' = Call("joinRoom", c, pend[c].code, "true")
                 /\ rooms' = rooms )]_vars

\* C5, witness: joinRoom has just written into a room whose match is under
\* way, a mark on the board and O to move.
C5_Witness ==
  \E c \in Clients, code \in Codes :
    /\ last = Call("joinRoom", c, code, "update")
    /\ rooms[code].board # EMPTY_BOARD
    /\ rooms[code].currentTurn = "O"
    /\ rooms[code].player2 = [name |-> NameOf(c), symbol |-> "O", joined |-> TRUE]
    /\ rooms[code].status = "PLAYING"

\* The room C6 describes: WAITING, player1 = {name, X, joined}, player2 =
\* {"", O, not joined}, nine empty cells, X to move, no winner.
C6_FreshRoom(name) ==
  [status |-> "WAITING",
   player1 |-> [name |-> name, symbol |-> "X", joined |-> TRUE],
   player2 |-> [name |-> "", symbol |-> "O", joined |-> FALSE],
   board |-> [i \in 0 .. 8 |-> Null], currentTurn |-> "X", winner |-> Null]

\* C6, as stated: when createRoom(name) has returned a code, the room stored
\* under that code is the fresh room of name.
C6_RoomIsFreshAtReturn ==
  \A c \in Clients, code \in Codes :
    last = Call("createRoom", c, code, code) => rooms[code] = C6_FreshRoom(NameOf(c))

\* C6, amended: the set() of createRoom(name) leaves the fresh room of name
\* under the code, whatever was stored there, and touches no other room; the
\* rest of createRoom writes no room and returns that code.
C6_CreateRoomWritesFreshRoom ==
  [][\A c \in Clients :
       /\ (pc[c] = "idle" /\ pc'[c] = "createRoom_set")
            => rooms' = [rooms EXCEPT ![pend'[c].code] = C6_FreshRoom(NameOf(c))]
       /\ (pc[c] = "createRoom_set" /\ pc'[c] # "createRoom_set")
            => ( /\ last' = Call("createRoom", c, pend[c].code, pend[c].code)
                 /\ rooms' = rooms )]_vars

\* C6, witness: createRoom has returned the code of a room that is fresh,
\* to a client that is not the first to create it.
C6_Witness ==
  \E c \in Clients, code \in Codes :
    /\ last = Call("createRoom", c, code, code)
    /\ rooms[code] = C6_FreshRoom(NameOf(c))
    /\ \E d \in Clients \ {c} : <<code, "player1">> \in onDisc[d]

\* C7: in any mode, an accepted handleMove places the symbol that the latest
\* accepted move of the same match did not place, and, when it does not end
\* the match, leaves currentTurn at the opposite symbol (in the room for an
\* online move, in the client for an offline one).
C7_AcceptedMovesAlternate ==
  [][\A c \in Clients, index \in Cells :
       /\ handleMoveOnline(c, index)
            => ( /\ placed[app[c].roomCode] # app[c].currentTurn
                 /\ checkGameStatus(placeMark(app[c], index)) = NoResult
                      => rooms'[app[c].roomCode].currentTurn
                           = otherSymbol(app[c].currentTurn) )
       /\ (handleMoveLocal(c, index) \/ aiTurn(c, index))
            => ( /\ placed[c] # app[c].currentTurn
                 /\ checkGameStatus(placeMark(app[c], index)) = NoResult
                      => app'[c].currentTurn = otherSymbol(app[c].currentTurn) )]_vars

\* The 8 winning combinations, as sets of cells: rows, columns, diagonals.
C8_Lines ==
  << {0, 1, 2}, {3, 4, 5}, {6, 7, 8}, {0, 3, 6}, {1, 4, 7}, {2, 5, 8},
     {0, 4, 8}, {2, 4, 6} >>

\* the combinations whose three cells all hold symbol sym on board b
C8_Completed(b, sym) ==
  {k \in 1 .. 8 : \A i \in C8_Lines[k] : b[i] = sym}

C8_LineCells(line) == {line[i] : i \in 1 .. Len(line)}

\* C8, as stated: for each of the 8 combinations and each symbol, once an
\* accepted move has made the three cells of the combination equal to the
\* symbol, winner is that symbol and winningLine is that combination.
C8_CompletedCombinationIsTheLine ==
  \A c \in Clients, sym \in Symbols, k \in 1 .. 8 :
    ( /\ last = Call("handleMove", c, NoCode, "accepted")
      /\ k \in C8_Completed(app[c].board, sym) )
    => ( /\ app[c].winner = sym
         /\ C8_LineCells(app[c].winningLine) = C8_Lines[k] )

\* C8, amended: once an accepted move has made the three cells of one or
\* more combinations equal to a symbol, winner is that symbol and winningLine
\* is the first of these combinations in the order rows, columns, diagonal
\* 0-4-8, diagonal 2-4-6.
C8_FirstCompletedCombinationIsTheLine ==
  \A c \in Clients, sym \in Symbols :
    LET done == C8_Completed(app[c].board, sym)
    IN  (last = Call("handleMove", c, NoCode, "accepted") /\ done # {})
        => ( /\ app[c].winner = sym
             /\ \E k \in done :
                  /\ \A j \in done : k <= j
                  /\ C8_LineCells(app[c].winningLine) = C8_Lines[k] )

\* C8, witness: an accepted move has just won the match by completing two
\* combinations at once.
C8_Witness ==
  \E c \in Clients :
    /\ last = Call("handleMove", c, NoCode, "accepted")
    /\ app[c].winner \in Symbols
    /\ Cardinality(C8_Completed(app[c].board, app[c].winner)) = 2

\* C9: once an accepted move has filled the last empty cell, winner is draw
\* and there is no winning line when no combination holds three equal
\* symbols; when a combination holds three of a symbol, winner is that symbol
\* and not draw. checkWinner of the AI service gives the same verdict on the
\* full board.
C9_FullBoardDrawOrWinner ==
  \A c \in Clients :
    ( /\ last = Call("handleMove", c, NoCode, "accepted")
      /\ \A i \in 0 .. 8 : app[c].board[i] # Null )
    => /\ (\A sym \in Symbols : C8_Completed(app[c].board, sym) = {})
            => ( /\ app[c].winner = "draw"
                 /\ app[c].winningLine = NoLine )
       /\ \A sym \in Symbols :
            C8_Completed(app[c].board, sym) # {} => app[c].winner = sym
       /\ checkWinner(app[c].board) = app[c].winner

\* C9, witness: an accepted move has just filled the board with no
\* combination completed, and the match is a draw.
C9_Witness ==
  \E c \in Clients :
    /\ last = Call("handleMove", c, NoCode, "accepted")
    /\ \A i \in 0 .. 8 : app[c].board[i] # Null
    /\ \A sym \in Symbols : C8_Completed(app[c].board, sym) = {}
    /\ app[c].winner = "draw"

\* the room with the joined flag of one slot cleared and nothing else changed
C10_SlotLeft(room, isPlayer1) ==
  IF isPlayer1
  THEN [room EXCEPT !.player1 = [@ EXCEPT !.joined = FALSE]]
  ELSE [room EXCEPT !.player2 = [@ EXCEPT !.joined = FALSE]]

\* C10: leaveRoom(code, isPlayer1), called by goBack with isPlayer1 =
\* (mySymbol = X), clears the joined flag of the selected slot of the room and
\* changes nothing else in any room; on a room whose flag is already cleared
\* it changes nothing.
C10_LeaveRoomClearsOnlyItsSlot ==
  [][\A c \in Clients :
       goBackOnline(c)
       => LET code == app[c].roomCode
              isPlayer1 == app[c].mySymbol = "X"
          IN  /\ rooms' = [rooms EXCEPT ![code] = C10_SlotLeft(@, isPlayer1)]
              /\ C10_SlotLeft(rooms'[code], isPlayer1) = rooms'[code]]_vars

\* C10, witness: leaveRoom(code, false) has just been called by a client
\* after the client whose name is in the player2 slot had called it and
\* gone back to the landing view.
C10_Witness ==
  \E c \in Clients, code \in Codes :
    /\ last = Call("leaveRoom", c, code, "player2")
    /\ ~rooms[code].player2.joined
    /\ \E d \in Clients \ {c} :
         /\ rooms[code].player2.name = NameOf(d)
         /\ app[d].mySymbol = "O"
         /\ app[d].view = "LANDING"

\* C11: updateGameState(code, board, nextTurn, winner), called with a
\* database handle on a room that exists, commits in one step board,
\* currentTurn = nextTurn and lastMoveTimestamp = Date.now(); it writes winner
\* and status = FINISHED when winner is not null and leaves the winner and the
\* status of the room as they were when winner is null; players and every
\* other room stay as they were.
C11_UpdateGameStateWritesMatchFieldsOnly ==
  [][\A c \in Clients, code \in Codes, board \in RepositoryBoards,
        nextTurn \in Symbols, winner \in RepositoryWinners :
       ( /\ db[c]
         /\ rooms[code] # NoRoom
         /\ last' = Call("updateGameState", c, code, "void")
         /\ callUpdateGameState(c, code, board, nextTurn, winner) )
       => ( /\ rooms' = [rooms EXCEPT ![code] =
                           [@ EXCEPT !.board = board,
                                     !.currentTurn = nextTurn,
                                     !.winner = IF winner # Null THEN winner ELSE @,
                                     !.status = IF winner # Null THEN "FINISHED" ELSE @]]
            /\ lastMoveTimestamp' = [lastMoveTimestamp EXCEPT ![code] = now] )]_vars

\* C11, witness: updateGameState has just returned on a room that is still
\* WAITING with its creator joined, whose turn and timestamp it has
\* overwritten: every push so far carried a null winner.
C11_Witness ==
  \E c \in Clients, code \in Codes :
    /\ last = Call("updateGameState", c, code, "void")
    /\ db[c]
    /\ rooms[code] # NoRoom
    /\ rooms[code].status = "WAITING"
    /\ rooms[code].player1.joined
    /\ rooms[code].currentTurn = "O"
    /\ lastMoveTimestamp[code] = MaxClock

\* C12: in every room document, winner set implies status FINISHED.
C12_WinnerImpliesFinished ==
  \A code \in Codes :
    (rooms[code] # NoRoom /\ rooms[code].winner # Null)
      => rooms[code].status = "FINISHED"

\* C13: in every room document, at the server and in every snapshot on its
\* way to a subscriber, status WAITING implies player2.joined = false.
C13_WaitingImpliesSecondSlotFree ==
  /\ \A code \in Codes :
       (rooms[code] # NoRoom /\ rooms[code].status = "WAITING")
         => ~rooms[code].player2.joined
  /\ \A c \in Clients : \A i \in 1 .. Len(inbox[c]) :
       inbox[c][i].status = "WAITING" => ~inbox[c][i].player2.joined

\* C13, witness: a room is WAITING with its second slot free after a client
\* had joined it: it was created again under the same code.
C13_Witness ==
  \E code \in Codes, d \in Clients :
    /\ rooms[code] # NoRoom
    /\ rooms[code].status = "WAITING"
    /\ ~rooms[code].player2.joined
    /\ <<code, "player2">> \in onDisc[d]

\* C14: every move push leaves in the room the board the room held just
\* before the push with exactly one more mark: one empty cell filled, no
\* mark removed or replaced.
C14_MovePushAddsOneMark ==
  [][\A c \in Clients, index \in Cells :
       handleMoveOnline(c, index)
       => LET code == app[c].roomCode
          IN  /\ rooms[code] # NoRoom
              /\ \E i \in Cells :
                   /\ rooms[code].board[i] = Null
                   /\ \E sym \in Symbols :
                        rooms'[code].board = [rooms[code].board EXCEPT ![i] = sym]]_vars

\* C15: when handlePlayAgain has returned in online mode, the room of the
\* client is back at the initial match state: board empty, currentTurn X, no
\* winner.
C15_PlayAgainResetsRoom ==
  \A c \in Clients, code \in Codes :
    last = Call("handlePlayAgain", c, code, "void")
      => ( /\ rooms[code].board = EMPTY_BOARD
           /\ rooms[code].currentTurn = "X"
           /\ rooms[code].winner = Null )

\* C16: while the listener that handleCreateRoom attached (in the LOBBY
\* view) stays attached, its callback has scheduled the lobby-to-game
\* transition exactly once if it was passed a snapshot with player2.joined =
\* true, however many of them, and not at all otherwise.
C16_TransitionIssuedOncePerSubscription ==
  \A c \in Clients :
    (sub[c] # NoCode /\ heard[c].view = "LOBBY")
      => heard[c].issued = (IF heard[c].joined > 0 THEN 1 ELSE 0)

\* C16, witness: the listener of a room creator has been passed two
\* snapshots with player2.joined = true and has scheduled one transition.
C16_Witness ==
  \E c \in Clients :
    /\ sub[c] # NoCode
    /\ heard[c].view = "LOBBY"
    /\ app[c].mySymbol = "X"
    /\ heard[c].joined = MaxHeard
    /\ heard[c].issued = 1

\* the client sees the board, the turn and the winner of the room it listens to
C17_InSync(c) ==
  sub[c] # NoCode
    => ( /\ app[c].board = rooms[sub[c]].board
         /\ app[c].currentTurn = rooms[sub[c]].currentTurn
         /\ app[c].winner = rooms[sub[c]].winner )

\* C17: in the scenario, with every snapshot delivered, from some point on
\* the board, currentTurn and winner of both clients are those of the room;
\* and once the room has winner X, both clients come to hold winner X, with
\* status FINISHED in the room.
C17_ClientsConvergeOnRoom ==
  /\ <>[](\A c \in Players : C17_InSync(c))
  /\ \A code \in Codes :
       (rooms[code] # NoRoom /\ rooms[code].winner = "X")
         ~> ( /\ rooms[code].status = "FINISHED"
              /\ \A c \in Players : sub[c] = code => app[c].winner = "X" )

\* C17, witness: X has completed the top row, both clients listen to the room
\* and hold its board and winner X, and nothing is left to deliver.
C17_Witness ==
  \E code \in Codes :
    /\ rooms[code] # NoRoom
    /\ rooms[code].winner = "X"
    /\ rooms[code].status = "FINISHED"
    /\ \A i \in {0, 1, 2} : rooms[code].board[i] = "X"
    /\ \A c \in Players :
         /\ sub[c] = code
         /\ inbox[c] = << >>
         /\ app[c].winner = "X"
         /\ app[c].board = rooms[code].board

\* C18: a call of createRoom, joinRoom or updateGameState by a client whose
\* module has no database handle ends by throwing.
C18_NoDbCallsThrow ==
  \A c \in Clients :
    ( /\ ~db[c]
      /\ last.client = c
      /\ last.op \in {"createRoom", "joinRoom", "updateGameState"} )
    => last.ret = "throws"

\* C20: every code createRoom returns has length 4 and each of its
\* characters is a letter other than I and O or a digit from 2 to 9.
C20_Alphabet ==
  {"A", "B", "C", "D", "E", "F", "G", "H", "J", "K", "L", "M", "N", "P", "Q", "R",
   "S", "T", "U", "V", "W", "X", "Y", "Z", "2", "3", "4", "5", "6", "7", "8", "9"}

C19_NoDbSubscribeAndLeaveAreInert ==
  [][\A c \in Clients :
       ~db[c] =>
         /\ sub'[c] = NoCode /\ known'[c] = NoRoom /\ inbox'[c] = << >>
         /\ heard'[c].issued = 0
         /\ (last'.client = c /\ last'.op = "subscribeToRoom")
              => /\ last'.ret = "inert"
                 /\ app' = app /\ rooms' = rooms /\ inbox' = inbox
         /\ (last'.client = c /\ last'.op = "detach")
              => /\ last'.ret = "inert"
                 /\ app' = app /\ rooms' = rooms /\ inbox' = inbox /\ sub' = sub
         /\ (last'.client = c /\ last'.op = "leaveRoom")
              => /\ last'.ret = "void"
                 /\ app' = app /\ rooms' = rooms /\ inbox' = inbox
                 /\ lastMoveTimestamp' = lastMoveTimestamp /\ onDisc' = onDisc]_vars

\* the client without handle has subscribed to an existing room that another
\* client listens to, and has then called leaveRoom on it
C19_Witness ==
  \E code \in Codes, d \in Clients :
    /\ ~db[NoDbClient]
    /\ detach[NoDbClient] = "inert"
    /\ last = Call("leaveRoom", NoDbClient, code, "void")
    /\ rooms[code] # NoRoom
    /\ rooms[code].status = "WAITING"
    /\ rooms[code].player1.joined
    /\ sub[d] = code

\* C21: a client that has just entered the GAME view through startGame
\* (single player) or "Start Local Game" (same device) has an empty board,
\* no winner and X to move.
C21_NewMatchStartsWithX ==
  \A c \in Clients :
    (last.op = "startGame" /\ last.client = c)
    => /\ app[c].view = "GAME"
       /\ app[c].board = EMPTY_BOARD
       /\ app[c].winner = Null
       /\ app[c].currentTurn = "X"

\* C22: when the subscription callback of a client has processed a snapshot
\* (one delivered by the server, or the echo of the client's own move or
\* play-again push), the client's board, currentTurn and winner are those of
\* the snapshot, and opponentConnected is the joined flag of the slot whose
\* symbol is not the client's.
C22_Processed(c) ==
  \/ inbox[c] # << >> /\ known'[c] = Head(inbox[c]) /\ Deliver(c)
  \/ /\ last'.client = c
     /\ last'.op \in {"handleMove", "handlePlayAgain"}
     /\ last'.ret # "rejected"
     /\ known'[c] # known[c]

C22_CallbackProjectsSnapshot ==
  [][\A c \in Clients :
       C22_Processed(c)
       => LET data == known'[c]
          IN  /\ app'[c].board = data.board
              /\ app'[c].currentTurn = data.currentTurn
              /\ app'[c].winner = data.winner
              /\ \A slot \in {"player1", "player2"} :
                   data[slot].symbol # app'[c].mySymbol
                   => app'[c].opponentConnected = data[slot].joined]_vars

\* the client playing O has processed a snapshot in which X has won and its
\* opponent is joined
C22_Witness ==
  \E c \in Clients :
    /\ sub[c] # NoCode
    /\ known[c] # NoRoom
    /\ app[c].mySymbol = "O"
    /\ app[c].view = "GAME"
    /\ known[c].winner = "X"
    /\ app[c].winner = "X"
    /\ app[c].board = known[c].board
    /\ app[c].currentTurn = known[c].currentTurn
    /\ known[c].player1.joined
    /\ app[c].opponentConnected

\* C23: when the subscription callback of a client has processed a
\* snapshot, the client shows "Opponent disconnected" if the snapshot has no
\* winner and the joined flag of the opponent's slot is false, and shows no
\* message otherwise.
C23_OpponentLeft(c, data) ==
  \E slot \in {"player1", "player2"} :
    data[slot].symbol # app'[c].mySymbol /\ ~data[slot].joined

C23_DisconnectedExactlyWhenOpponentLeftUndecided ==
  [][\A c \in Clients :
       C22_Processed(c)
       => app'[c].errorMsg =
            (IF known'[c].winner = Null /\ C23_OpponentLeft(c, known'[c])
             THEN "Opponent disconnected" ELSE "")]_vars

\* the creator, in a match with marks on the board and no winner, has
\* processed the snapshot in which player2 left
C23_Witness ==
  /\ app[Creator].view = "GAME"
  /\ app[Creator].mySymbol = "X"
  /\ sub[Creator] # NoCode
  /\ known[Creator] # NoRoom
  /\ known[Creator].board # EMPTY_BOARD
  /\ known[Creator].winner = Null
  /\ ~known[Creator].player2.joined
  /\ app[Creator].board = known[Creator].board
  /\ app[Creator].errorMsg = "Opponent disconnected"

\* C24: when handleMove of a client in online mode accepts a move, the
\* client's board holds the new mark as the handler reaches its await, its
\* winner is the result of that board and, the match going on, its turn has
\* passed to the other symbol.
C24_AcceptedOnlineMoveShowsAtOnce ==
  [][\A c \in Clients :
       (last' = Call("handleMove", c, NoCode, "accepted") /\ app[c].gameMode = "ONLINE")
       => \E index \in Cells :
            LET newBoard == placeMark(app[c], index)
                result == checkGameStatus(newBoard)
            IN  /\ app[c].board[index] = Null
                /\ app'[c].board = newBoard
                /\ app'[c].winner = result.winner
                /\ result = NoResult
                   => app'[c].currentTurn = otherSymbol(app[c].currentTurn)]_vars

\* C25: createRoom returning a code leaves the deferred write on player1 of
\* that room armed for its caller, joinRoom returning true the one on
\* player2; the deferred writes of a client stay armed until its connection
\* drops, and the drop, which needs no step of the client, sets joined to
\* false in exactly the armed slots and changes nothing else in any room.
C25_Dropped(room, slots) ==
  [room EXCEPT !.player1.joined = IF "player1" \in slots THEN FALSE ELSE @,
               !.player2.joined = IF "player2" \in slots THEN FALSE ELSE @]

C25_DisconnectClearsArmedSlotOnly ==
  [][\A c \in Clients :
       /\ \A code \in Codes :
            /\ last' = Call("createRoom", c, code, code)
               => <<code, "player1">> \in onDisc'[c]
            /\ last' = Call("joinRoom", c, code, "true")
               => <<code, "player2">> \in onDisc'[c]
       /\ onDisc[c] \subseteq onDisc'[c] \/ onDisc'[c] = {}
       /\ (onDisc[c] # {} /\ onDisc'[c] = {})
          => /\ app' = app
             /\ \A code \in Codes :
                  rooms'[code] =
                    C25_Dropped(rooms[code],
                                {slot \in {"player1", "player2"} :
                                   <<code, slot>> \in onDisc[c]})]_vars

\* the connection of the joiner has dropped during the match: it is still in
\* the GAME view of the room, whose player2 is no longer joined while the
\* room is still PLAYING with player1 joined
C25_Witness ==
  \E c \in Clients, code \in Codes :
    /\ onDisc[c] = {}
    /\ last = Quiet
    /\ app[c].view = "GAME"
    /\ app[c].gameMode = "ONLINE"
    /\ app[c].mySymbol = "O"
    /\ app[c].roomCode = code
    /\ rooms[code] # NoRoom
    /\ rooms[code].status = "PLAYING"
    /\ rooms[code].player1.joined
    /\ rooms[code].player2.name = NameOf(c)
    /\ ~rooms[code].player2.joined

\* C26: a client whose App is in no room context (after goBack, or after the
\* subscription effect was torn down) holds no listener and no snapshot is
\* on its way to it, so that its callback processes none; and while it stays
\* out of a room context a further teardown leaves it so.
C26_DetachedClientHearsNothing ==
  [][\A c \in Clients :
       WantedSub(app[c]) = NoCode
       => /\ sub[c] = NoCode
          /\ inbox[c] = << >>
          /\ ~Deliver(c)
          /\ WantedSub(app'[c]) = NoCode
             => sub'[c] = NoCode /\ inbox'[c] = << >> /\ known'[c] = NoRoom]_vars

\* the joiner has left the room with goBack, and the creator, still
\* listening, has then pushed a move to that room
C26_Witness ==
  \E c, d \in Clients, code \in Codes :
    /\ c # d
    /\ app[c].view = "LANDING"
    /\ WantedSub(app[c]) = NoCode
    /\ rooms[code] # NoRoom
    /\ rooms[code].player2.name = NameOf(c)
    /\ ~rooms[code].player2.joined
    /\ sub[d] = code
    /\ last = Call("handleMove", d, NoCode, "accepted")
    /\ rooms[code].board # EMPTY_BOARD

\* C27: a leaveRoom of a client, or the deferred writes of a client whose
\* connection drops, turn joined from true to false only in slots that hold
\* the name of that client.
C27_Cleared(code, slot) ==
  /\ rooms[code] # NoRoom
  /\ rooms'[code] # NoRoom
  /\ rooms[code][slot].joined
  /\ ~rooms'[code][slot].joined

C27_OnlyOwnSlotCleared ==
  [][\A c \in Clients :
       ( \/ last'.op = "leaveRoom" /\ last'.client = c
         \/ onDisc[c] # {} /\ onDisc'[c] = {} )
       => \A code \in Codes, slot \in {"player1", "player2"} :
            C27_Cleared(code, slot) => rooms[code][slot].name = NameOf(c)]_vars

\* C28: the view of a client goes from LOBBY to GAME only when its listener,
\* since it was attached, has passed a snapshot with player2.joined = true
\* to the callback.
C28_LobbyLeftOnlyAfterJoinedSnapshot ==
  [][\A c \in Clients :
       (app[c].view = "LOBBY" /\ app'[c].view = "GAME")
       => heard[c].joined > 0]_vars

\* C29: the score of a client changes only in the step in which its match
\* becomes decided, and then the counter of the result goes up by one (a
\* counter at MaxScore stays) and the other two stay; startGame, which
\* zeroes the score, apart.
C29_ScoreCountsEachResultOnce ==
  [][\A c \in Clients :
       ~(last'.op = "startGame" /\ last'.client = c)
       => app'[c].score =
            (IF app[c].winner = Null /\ app'[c].winner # Null
             THEN [app[c].score EXCEPT ![scoreKey(app'[c].winner)] =
                                         IF @ < MaxScore THEN @ + 1 ELSE @]
             ELSE app[c].score)]_vars

\* C30: in a single-player match at difficulty HARD, whenever the AI is to
\* move getBestMove returns a cell and that cell is empty, and X is never the
\* winner.
C30_AiDue(s) ==
  /\ s.view = "GAME"
  /\ s.gameMode = "SINGLE"
  /\ s.difficulty = "HARD"
  /\ s.currentTurn = "O"
  /\ s.winner = Null

C30_HardAiMovesLegallyAndNeverLoses ==
  \A c \in Clients :
    /\ (app[c].view = "GAME" /\ app[c].gameMode = "SINGLE" /\ app[c].difficulty = "HARD")
       => app[c].winner # "X"
    /\ C30_AiDue(app[c])
       => LET moves == getBestMove(app[c].board, "HARD")
          IN  /\ moves # {}
              /\ \A m \in moves : m \in Cells /\ app[c].board[m] = Null

\* a match against the HARD AI has ended in a draw on a full board
C30_Witness ==
  \E c \in Clients :
    /\ app[c].view = "GAME"
    /\ app[c].gameMode = "SINGLE"
    /\ app[c].difficulty = "HARD"
    /\ app[c].winner = "draw"
    /\ \A i \in Cells : app[c].board[i] # Null

====
